---- MODULE Spec2Model ----
(***************************************************************************)
(* A model of the SciServer CasJobs client (SciServer/CasJobs.py,          *)
(* SciServer/utils.py, SciServer/constants.py).                            *)
(*                                                                         *)
(* Text is a sequence of tokens: a Python str is a tuple of strings, the   *)
(* empty str is << >>, concatenation is \o.  Placeholders such as          *)
(* "<context>" are single tokens, so str.replace substitutes a token by a  *)
(* text.  Python's None is the distinguished text None.                    *)
(***************************************************************************)
EXTENDS Integers, Sequences, FiniteSets, TLC

----------------------------------------------------------------------------
(* Bounds of the model                                                     *)

MaxQueries == 2
MaxLog == 5

----------------------------------------------------------------------------
(* Python values                                                           *)

None == <<"<NoneType>">>

\* str(x) of a text or of None
Str(x) == IF x = None THEN <<"None">> ELSE x

\* tagged containers, so that subscripting keeps Python's typing rules
PyList(items) == [t |-> "list", v |-> items]
PyDict(fields) == [t |-> "dict", v |-> fields]
PyErr(etype) == [t |-> "error", v |-> etype]

\* the result of evaluating an expression: a value or a raised exception
Ok(v) == [ok |-> TRUE, v |-> v, etype |-> "", msg |-> << >>]
Raise(etype, msg) == [ok |-> FALSE, etype |-> etype, msg |-> msg]

\* obj[key] for a str key: a dict looks the key up, a list raises TypeError
GetItemStr(obj, key) ==
    IF obj.t = "error" THEN obj
    ELSE IF obj.t = "dict"
         THEN IF key \in DOMAIN obj.v THEN obj.v[key] ELSE PyErr("KeyError")
         ELSE PyErr("TypeError")

\* obj[i] for an int key (0-based): a list indexes, a dict looks the key up
GetItemInt(obj, i) ==
    IF obj.t = "error" THEN obj
    ELSE IF obj.t = "list"
         THEN IF i + 1 \in DOMAIN obj.v THEN obj.v[i + 1] ELSE PyErr("IndexError")
         ELSE PyErr("KeyError")

\* old.replace(placeholder, new): every occurrence of the token is replaced
RECURSIVE Replace(_, _, _)
Replace(s, old, new) ==
    IF s = << >> THEN << >>
    ELSE (IF Head(s) = old THEN new ELSE <<Head(s)>>) \o Replace(Tail(s), old, new)

\* whether text sub occurs in text s
Contains(s, sub) ==
    \E i \in 0..Len(s) :
        /\ i + Len(sub) <= Len(s)
        /\ \A j \in 1..Len(sub) : s[i + j] = sub[j]

----------------------------------------------------------------------------
(* constants.py                                                            *)

RECURSIVE _join_str(_, _)
_join_str(args, sep) ==
    IF Len(args) = 0 THEN << >>
    ELSE IF Len(args) = 1 THEN args[1]
    ELSE args[1] \o sep \o _join_str(Tail(args), sep)

JOB_ID == "<job_id>"
TABLENAME_ID == "<tablename>"
HTTP_CODE_ID == "<code>"
CONTEXT_ID == "<context>"
TASKNAME_ID == "<taskname>"

LOGIN_ERROR == <<"User token is not defined. First log into SciServer.">>
SCHEMA_ERROR == <<"Error when getting schema name.">>
GET_TABLE_ERROR ==
    _join_str(<< <<"Error when getting table description">>,
                 <<"from database context ", CONTEXT_ID, ".\n">> >>, <<" ">>)
ILLEGAL_FORMAT_ERROR ==
    _join_str(<< <<"Error when executing query. Illegal format parameter specification: ">> >>,
              <<" ">>)
EXECUTE_QUERY_ERROR == <<"Error when executing query.">>
SUMBIT_JOB_ERROR == <<"Error when submitting a job.">>
GET_JOB_STATUS_ERROR ==
    _join_str(<< <<"Error when getting the status of job ", JOB_ID, ".\n">> >>, <<" ">>)
CANCEL_JOB_ERROR == <<"Error when canceling job ", JOB_ID, ".\n">>
UPLOAD_CSV_ERROR ==
    _join_str(<< <<"Error when uploading CSV data into">>,
                 <<"CasJobs table ", TABLENAME_ID, ".\n">> >>, <<" ">>)
HTTP_ERROR ==
    _join_str(<< <<"Http Response from CasJobs API">>,
                 <<"returned status code ", HTTP_CODE_ID, ":\n">> >>, <<" ">>)

GETTABLES == <<"getTables">>
GETSCHEMANAME == <<"getSchemaName">>
EXECUTEQUERY == <<"executeQuery">>
SUBMITJOB == <<"submitJob">>
GETJOBSTATUS == <<"getJobStatus">>
CANCELJOB == <<"cancelJob">>
WRITEFITSFILEFROMQUERY == <<"writeFitsFileFromQuery">>
GETPANDASDATAFRAMEFROMQUERY == <<"getPandasDataFrameFromQuery">>
GETNUMPYARRAYFROMQUERY == <<"getNumpyArrayFromQuery">>
UPLOADPANDASDATAFRAMETOTABLE == <<"uploadPandasDataFrameToTable">>
UPLOADCSVDATATOTABLE == <<"uploadCSVDataToTable">>

SCISCRIPT_PYTHON == <<"SciScript-Python.CasJobs.">>
SCISCRIPT_PYTHON_COMPUTE == <<"Compute.">> \o SCISCRIPT_PYTHON
X_AUTH_TOKEN == "X-Auth-Token"
CONTENT_TYPE == "Content-Type"
ACCEPT == "Accept"
CONTENT_JSON == <<"application/json">>
KEYSTONE_USER_ID == "<keystone_user_id>"
MYDB == <<"MyDB">>
QUERY == "Query"
TASKNAME == "TaskName"

----------------------------------------------------------------------------
(* State                                                                   *)

VARIABLES
    token,          \* what Authentication.getToken() returns
    compute,        \* what Config.isSciServerComputeEnvironment() returns
    task_name,      \* CasJobs.task.name, the task-name override
    pc,             \* "idle", or where the running call stands
    op,             \* the public operation called last
    args,           \* its arguments
    log,            \* the HTTP requests, responses and sleeps of that call
    outcome,        \* what the call returned or raised
    remoteStatus,   \* the status the service holds for the job that a running
                    \* waitForJob watches, -1 when none is running
    jobDesc,        \* waitForJob's local jobDesc
    tasks,          \* executeQueryAsync's per-query tasks
    threads         \* where each caller thread stands in its call, for the
                    \* calls followed statement by statement

vars == <<token, compute, task_name, pc, op, args, log, outcome,
          remoteStatus, jobDesc, tasks, threads>>

----------------------------------------------------------------------------
(* The service: what a response may be                                     *)

Response(status_code, content) == [status_code |-> status_code, content |-> content]

\* the responses that are not 200 OK
ErrorResponses == {Response(404, <<"no such", " object">>), Response(201, <<"created">>)}

\* the result sets a query may produce
RS_A == PyDict([Columns |-> PyList(<<"foo">>), Data |-> PyList(<< <<1>> >>)])
RS_B == PyDict([Columns |-> PyList(<<"bar", "baz">>),
               Data |-> PyList(<< <<2, 3>>, <<4, 5>> >>)])
QueryBodies == {<<"{Result:[A]}">>, <<"{Result:[B,A]}">>}
QueryResponses == {Response(200, b) : b \in QueryBodies} \cup ErrorResponses

Statuses == 0..5
JobBody(status) == <<"{Status:", ToString(status), ",Rows:", "1", "}">>
JobResponses(status) == {Response(200, JobBody(status))} \cup ErrorResponses

PlainResponses(bodies) == {Response(200, b) : b \in bodies} \cup ErrorResponses

\* int(text) of a decimal numeral
ParseInt(tok) == CHOOSE n \in 0..9 : ToString(n) = tok

\* orjson.loads of a response body
orjson_loads(content) ==
    IF content = <<"{Result:[A]}">> THEN PyDict([Result |-> PyList(<<RS_A>>)])
    ELSE IF content = <<"{Result:[B,A]}">> THEN PyDict([Result |-> PyList(<<RS_B, RS_A>>)])
    ELSE IF Len(content) = 5 /\ content[1] = "{Status:"
    THEN PyDict([Status |-> ParseInt(content[2]), Rows |-> ParseInt(content[4])])
    ELSE IF Len(content) = 3 /\ content[1] = "{WebServicesId:"
    THEN PyDict([WebServicesId |-> [t |-> "int", v |-> ParseInt(content[2])]])
    ELSE IF Len(content) = 1 /\ content[1] = "[tables]"
    THEN PyList(<<"t1", "t2">>)
    ELSE PyErr("JSONDecodeError")

----------------------------------------------------------------------------
(* utils.py                                                                *)

\* a check that forgets the empty token
__token_OnlyNone ==
    IF token = None
    THEN Raise("ValueError", LOGIN_ERROR)
    ELSE Ok(token)

__token ==
    IF token = None \/ token = << >>
    THEN Raise("ValueError", LOGIN_ERROR)
    ELSE Ok(token)

__get_taskname(task_id) ==
    IF compute
    THEN SCISCRIPT_PYTHON_COMPUTE \o Str(task_id)
    ELSE SCISCRIPT_PYTHON \o Str(task_id)

__taskname_url(taskname) == <<"?", TASKNAME, "=">> \o __get_taskname(taskname)

__format_to_accept_header(accept_format) ==
    IF accept_format \in {<<"pandas">>, <<"json">>, <<"dict">>}
    THEN Ok(<<"application/json+array">>)
    ELSE IF accept_format \in {<<"csv">>, <<"readable">>, <<"StringIO">>}
    THEN Ok(<<"text/plain">>)
    ELSE IF accept_format \in {<<"fits">>, <<"BytesIO">>}
    THEN Ok(<<"application/fits">>)
    ELSE Raise("ValueError", ILLEGAL_FORMAT_ERROR \o Str(accept_format))

\* headers built without the content type
__get_headers_NoContentType(tok, accept_format) ==
    LET headers == (X_AUTH_TOKEN :> tok)
    IN  IF accept_format # None
        THEN LET a == __format_to_accept_header(accept_format)
             IN  IF a.ok THEN Ok(headers @@ (ACCEPT :> a.v)) ELSE a
        ELSE Ok(headers)

__get_headers(tok, accept_format) ==
    LET headers == (X_AUTH_TOKEN :> tok) @@ (CONTENT_TYPE :> CONTENT_JSON)
    IN  IF accept_format # None
        THEN LET a == __format_to_accept_header(accept_format)
             IN  IF a.ok THEN Ok(headers @@ (ACCEPT :> a.v)) ELSE a
        ELSE Ok(headers)

__format_data(sql, taskName) == PyDict([Query |-> sql, TaskName |-> taskName])

__response_to_json(response) == orjson_loads(response.content)

\* a check that takes every 2xx status for a success
__validate_response_status_Any2xx(response, on_error) ==
    IF response.status_code < 200 \/ response.status_code >= 300
    THEN Raise("ValueError",
               _join_str(<<on_error,
                           Replace(HTTP_ERROR, HTTP_CODE_ID,
                                   <<ToString(response.status_code)>>),
                           response.content>>, <<" ">>))
    ELSE Ok(None)

__validate_response_status(response, on_error) ==
    IF response.status_code # 200
    THEN Raise("ValueError",
               _join_str(<<on_error,
                           Replace(HTTP_ERROR, HTTP_CODE_ID,
                                   <<ToString(response.status_code)>>),
                           response.content>>, <<" ">>))
    ELSE Ok(None)

\* pandas.DataFrame(data, columns=columns)
DataFrame(data, columns) == [t |-> "DataFrame", v |-> [Data |-> data, Columns |-> columns]]

RECURSIVE FramesOf(_)
FramesOf(results) ==
    IF results = << >> THEN << >>
    ELSE <<DataFrame(Head(results).v.Data, Head(results).v.Columns)>>
         \o FramesOf(Tail(results))

__parse_post(response, format) ==
    IF format \in {<<"readable">>, <<"StringIO">>}
    THEN Ok([t |-> "StringIO", v |-> response.content])
    ELSE IF format = <<"pandas">>
    THEN LET r == orjson_loads(response.content)
             results == GetItemStr(r, "Result")
         IN  IF results.t = "error" THEN Raise(results.v, << >>)
             ELSE IF Len(results.v) > 1 THEN Ok(PyList(FramesOf(results.v)))
             ELSE IF Len(results.v) = 0 THEN Raise("IndexError", << >>)
             ELSE Ok(DataFrame(results.v[1].v.Data, results.v[1].v.Columns))
    ELSE IF format \in {<<"csv">>, <<"json">>}
    THEN Ok([t |-> "str", v |-> response.content])
    ELSE IF format = <<"dict">>
    THEN Ok(orjson_loads(response.content))
    ELSE IF format \in {<<"fits">>, <<"BytesIO">>}
    THEN Ok([t |-> "BytesIO", v |-> response.content])
    ELSE Raise("ValueError", ILLEGAL_FORMAT_ERROR \o Str(format))

\* Config.CasJobsRESTUri
CasJobsRESTUri == <<"{CasJobsRESTUri}">>

URL_DICT(name) ==
    IF name = GETSCHEMANAME
    THEN _join_str(<<CasJobsRESTUri \o <<"/", "users", "/">>,
                     <<KEYSTONE_USER_ID>>,
                     __taskname_url(GETSCHEMANAME)>>, << >>)
    ELSE IF name = GETTABLES
    THEN _join_str(<<CasJobsRESTUri \o <<"/", "contexts", "/", CONTEXT_ID>>,
                     <<"/", "Tables">> \o __taskname_url(GETTABLES)>>, << >>)
    ELSE IF name = EXECUTEQUERY
    THEN _join_str(<<CasJobsRESTUri \o <<"/", "contexts", "/", CONTEXT_ID>>,
                     <<"/", "query", TASKNAME_ID>> >>, << >>)
    ELSE IF name = SUBMITJOB
    THEN _join_str(<<CasJobsRESTUri \o <<"/", "contexts", "/", CONTEXT_ID>>,
                     <<"/", "jobs">> \o __taskname_url(SUBMITJOB)>>, << >>)
    ELSE IF name = GETJOBSTATUS
    THEN _join_str(<<CasJobsRESTUri \o <<"/", "jobs">>,
                     <<"/", JOB_ID>> \o __taskname_url(GETJOBSTATUS)>>, << >>)
    ELSE IF name = CANCELJOB
    THEN _join_str(<<CasJobsRESTUri \o <<"/", "jobs">>,
                     <<"/", JOB_ID>> \o __taskname_url(CANCELJOB)>>, << >>)
    ELSE \* UPLOADCSVDATATOTABLE
         _join_str(<<CasJobsRESTUri \o <<"/", "contexts", "/", CONTEXT_ID>>,
                     <<"/", "Tables", "/", TABLENAME_ID, TASKNAME_ID>> >>, << >>)

----------------------------------------------------------------------------
(* What a call leaves behind: the events it caused, what it returned or    *)
(* raised, and the value of task.name after it                             *)

Request(method, url, headers, data) ==
    [type |-> "request", method |-> method, url |-> url, headers |-> headers,
     data |-> data]
Reply(response) ==
    [type |-> "response", status_code |-> response.status_code,
     content |-> response.content]
Sleep(secs) == [type |-> "sleep", secs |-> secs]

Done(events, out, tn) == [log |-> events, out |-> out, tn |-> tn]

True == [t |-> "bool", v |-> TRUE]

__response_get(url, tok, on_error, response) ==
    LET headers == __get_headers(tok, None)
        events == <<Request("GET", url, headers.v, None), Reply(response)>>
        valid == __validate_response_status(response, on_error)
        json == __response_to_json(response)
    IN  [log |-> events,
         out |-> IF ~valid.ok THEN valid
                 ELSE IF json.t = "error" THEN Raise(json.v, << >>)
                 ELSE Ok(json)]

----------------------------------------------------------------------------
(* CasJobs.py: the operations, as functions of their arguments, of         *)
(* task.name (tn) when they read it, and of the response the service gives *)

\* Authentication.getKeystoneUserWithToken(token).id
KeystoneUserId == <<"{keystone-user-id}">>

getSchemaName(tn, response) ==
    LET tok == __token
        usersUrl == Replace(URL_DICT(GETSCHEMANAME), KEYSTONE_USER_ID, KeystoneUserId)
        r == __response_get(usersUrl, tok.v, SCHEMA_ERROR, response)
        wsid == GetItemStr(r.out.v, "WebServicesId")
    IN  IF ~tok.ok THEN Done(<< >>, tok, tn)
        ELSE IF ~r.out.ok THEN Done(r.log, r.out, tn)
        ELSE IF wsid.t = "error" THEN Done(r.log, Raise(wsid.v, << >>), tn)
        ELSE Done(r.log, Ok([t |-> "str", v |-> <<"wsid_", ToString(wsid.v)>>]), tn)

getTables(tn, context, response) ==
    LET url == Replace(URL_DICT(GETTABLES), CONTEXT_ID, context)
        tok == __token
        r == __response_get(url, tok.v,
                            Replace(GET_TABLE_ERROR, CONTEXT_ID, Str(context)),
                            response)
    IN  IF ~tok.ok THEN Done(<< >>, tok, tn) ELSE Done(r.log, r.out, tn)

\* an executeQuery that reads task.name and leaves it as it was
executeQuery_KeepsTaskName(tn, sql, context, format, response) ==
    LET taskName == IF tn # None THEN tn ELSE __get_taskname(EXECUTEQUERY)
        url == Replace(Replace(URL_DICT(EXECUTEQUERY), CONTEXT_ID, context),
                       TASKNAME_ID, __taskname_url(taskName))
        data == __format_data(sql, taskName)
        tok == __token
        headers == IF tok.ok THEN __get_headers(tok.v, format) ELSE tok
        events == <<Request("POST", url, headers.v, data), Reply(response)>>
        valid == __validate_response_status(response, EXECUTE_QUERY_ERROR)
    IN  IF ~headers.ok THEN Done(<< >>, headers, tn)
        ELSE IF ~valid.ok THEN Done(events, valid, tn)
        ELSE Done(events, __parse_post(response, format), tn)

executeQuery(tn, sql, context, format, response) ==
    LET taskName == IF tn # None THEN tn ELSE __get_taskname(EXECUTEQUERY)
        url == Replace(Replace(URL_DICT(EXECUTEQUERY), CONTEXT_ID, context),
                       TASKNAME_ID, __taskname_url(taskName))
        data == __format_data(sql, taskName)
        tok == __token
        headers == IF tok.ok THEN __get_headers(tok.v, format) ELSE tok
        events == <<Request("POST", url, headers.v, data), Reply(response)>>
        valid == __validate_response_status(response, EXECUTE_QUERY_ERROR)
    IN  IF ~headers.ok THEN Done(<< >>, headers, None)
        ELSE IF ~valid.ok THEN Done(events, valid, None)
        ELSE Done(events, __parse_post(response, format), None)

submitJob(tn, sql, context, response) ==
    LET url == Replace(URL_DICT(SUBMITJOB), CONTEXT_ID, context)
        data == __format_data(sql, __get_taskname(SUBMITJOB))
        tok == __token
        headers == IF tok.ok THEN __get_headers(tok.v, <<"readable">>) ELSE tok
        events == <<Request("PUT", url, headers.v, data), Reply(response)>>
        valid == __validate_response_status(response, SUMBIT_JOB_ERROR)
    IN  IF ~headers.ok THEN Done(<< >>, headers, tn)
        ELSE IF ~valid.ok THEN Done(events, valid, tn)
        ELSE Done(events, Ok([t |-> "int", v |-> ParseInt(response.content[1])]), tn)

getJobStatus(tn, jobId, response) ==
    LET jobIdStr == <<ToString(jobId)>>
        url == Replace(URL_DICT(GETJOBSTATUS), JOB_ID, jobIdStr)
        tok == __token
        r == __response_get(url, tok.v,
                            Replace(GET_JOB_STATUS_ERROR, JOB_ID, jobIdStr),
                            response)
    IN  IF ~tok.ok THEN Done(<< >>, tok, tn) ELSE Done(r.log, r.out, tn)

cancelJob(tn, jobId, response) ==
    LET jobIdStr == <<ToString(jobId)>>
        url == Replace(URL_DICT(CANCELJOB), JOB_ID, jobIdStr)
        tok == __token
        headers == IF tok.ok THEN __get_headers(tok.v, None) ELSE tok
        events == <<Request("DELETE", url, headers.v, None), Reply(response)>>
        valid == __validate_response_status(
                     response, Replace(CANCEL_JOB_ERROR, JOB_ID, jobIdStr))
    IN  IF ~headers.ok THEN Done(<< >>, headers, tn)
        ELSE IF ~valid.ok THEN Done(events, valid, tn)
        ELSE Done(events, Ok(True), tn)

uploadCSVDataToTable(tn, csvData, tableName, context, response) ==
    LET taskName == IF tn # None THEN tn ELSE __get_taskname(UPLOADCSVDATATOTABLE)
        url == Replace(Replace(Replace(URL_DICT(EXECUTEQUERY), CONTEXT_ID, context),
                               TABLENAME_ID, tableName),
                       TASKNAME_ID, __taskname_url(taskName))
        tok == __token
        headers == (X_AUTH_TOKEN :> tok.v)
        events == <<Request("POST", url, headers, csvData), Reply(response)>>
        valid == __validate_response_status(
                     response, Replace(UPLOAD_CSV_ERROR, TABLENAME_ID, tableName))
    IN  IF ~tok.ok THEN Done(<< >>, tok, None)
        ELSE IF ~valid.ok THEN Done(events, valid, None)
        ELSE Done(events, Ok(True), None)

writeFitsFileFromQuery(tn, fileName, queryString, context, response) ==
    LET r == executeQuery(__get_taskname(WRITEFITSFILEFROMQUERY), queryString,
                          context, <<"fits">>, response)
    IN  IF ~r.out.ok THEN r ELSE Done(r.log, Ok(True), r.tn)

\* pandas.read_csv(buffer, index_col=None)
read_csv(buffer) == [t |-> "DataFrame", v |-> [csv |-> buffer.v]]

getPandasDataFrameFromQuery(tn, queryString, context, response) ==
    LET r == executeQuery(__get_taskname(GETPANDASDATAFRAMEFROMQUERY), queryString,
                          context, <<"readable">>, response)
    IN  IF ~r.out.ok THEN r ELSE Done(r.log, Ok(read_csv(r.out.v)), r.tn)

getNumpyArrayFromQuery(tn, queryString, context, response) ==
    LET r == getPandasDataFrameFromQuery(__get_taskname(GETNUMPYARRAYFROMQUERY),
                                         queryString, context, response)
    IN  IF ~r.out.ok THEN r
        ELSE Done(r.log, Ok([t |-> "ndarray", v |-> r.out.v.v]), r.tn)

\* dataFrame.to_csv(...).encode("utf8"): with the index column when the index
\* is named, without it otherwise; the table may fail to serialize
to_csv(dataFrame) ==
    IF ~dataFrame.serializable THEN Raise("UnicodeEncodeError", << >>)
    ELSE IF dataFrame.index_name # None /\ dataFrame.index_name # << >>
    THEN Ok(<<dataFrame.index_name[1], ",foo\n", "0,1\n">>)
    ELSE Ok(<<"foo\n", "1\n">>)

uploadPandasDataFrameToTable(tn, dataFrame, tableName, context, response) ==
    LET name == __get_taskname(UPLOADPANDASDATAFRAMETOTABLE)
        sio == to_csv(dataFrame)
    IN  IF ~sio.ok THEN Done(<< >>, sio, name)
        ELSE uploadCSVDataToTable(name, sio.v, tableName, context, response)

----------------------------------------------------------------------------
(* waitForJob: the polling loop, one step per poll and one per sleep       *)

minPollTime == 5

Max(a, b) == IF a >= b THEN a ELSE b

\* a loop that also stops on Canceling (2)
Complete_StopsOnCanceling(jobStatus) == jobStatus \in {2, 3, 4, 5}

\* a loop that does not stop on Canceled (3)
Complete_MissesCanceled(jobStatus) == jobStatus \in {4, 5}

\* jobStatus in (3, 4, 5)
Complete(jobStatus) == jobStatus \in {3, 4, 5}

\* a sleep that is not clamped
SleepTime_NoFloor(pollTime) == pollTime

\* the argument of time.sleep
SleepTime(pollTime) == Max(minPollTime, pollTime)

\* the log keeps the last MaxLog events of the call
Window(events) ==
    IF Len(events) <= MaxLog THEN events
    ELSE SubSeq(events, Len(events) - MaxLog + 1, Len(events))

Unbound == [t |-> "unbound"]
\* the arguments of a call without arguments
NoArgs == [argc |-> 0]
NoOutcome == [ok |-> FALSE, etype |-> "", msg |-> << >>]

----------------------------------------------------------------------------
(* executeQueryAsync: one task per query, gathered                         *)

\* resp.json() reduced to the Columns and Data of each result set
RECURSIVE ColumnsAndData(_)
ColumnsAndData(results) ==
    IF results = << >> THEN << >>
    ELSE <<PyDict([Columns |-> Head(results).v.Columns, Data |-> Head(results).v.Data])>>
         \o ColumnsAndData(Tail(results))

\* a check that lets every response through
__async_validate_response_status_Skipped(response) == Ok(None)

__async_validate_response_status(response) ==
    IF response.status_code # 200
    THEN Raise("ValueError",
               _join_str(<<EXECUTE_QUERY_ERROR,
                           Replace(HTTP_ERROR, HTTP_CODE_ID,
                                   <<ToString(response.status_code)>>),
                           response.content>>, <<" ">>))
    ELSE Ok(None)

\* the part of __make_post_request that follows the POST
__make_post_request(response) ==
    LET valid == __async_validate_response_status(response)
        response_json == orjson_loads(response.content)
        results == GetItemStr(response_json, "Result")
    IN  IF ~valid.ok THEN valid
        ELSE IF results.t = "error" THEN Raise(results.v, << >>)
        ELSE Ok(PyList(ColumnsAndData(results.v)))

\* a gather that hands the results over in the order the tasks finished
gather_CompletionOrder(ts) ==
    PyList([k \in 1..Len(ts) |-> ts[CHOOSE i \in 1..Len(ts) : ts[i].at = k].output])

\* asyncio.gather(*tasks): the results in the order of the tasks
gather(ts) == PyList([i \in 1..Len(ts) |-> ts[i].output])

\* r += response["Result"][0]["Data"] for each response, or the error raised
RECURSIVE ConcatData(_)
ConcatData(responses) ==
    IF responses = << >> THEN PyList(<< >>)
    ELSE LET data == GetItemStr(GetItemInt(GetItemStr(Head(responses), "Result"), 0),
                                "Data")
             rest == ConcatData(Tail(responses))
         IN  IF data.t = "error" THEN data
             ELSE IF rest.t = "error" THEN rest
             ELSE PyList(data.v \o rest.v)

\* the part of executeQueryAsync that follows asyncio.run
Combine(responses, format) ==
    IF format # None
    THEN LET r == ConcatData(responses.v)
             columns == GetItemStr(GetItemInt(GetItemStr(GetItemInt(responses, 0),
                                                         "Result"), 0), "Columns")
         IN  IF r.t = "error" THEN Raise(r.v, << >>)
             ELSE IF columns.t = "error" THEN Raise(columns.v, << >>)
             ELSE Ok(DataFrame(r.v, columns.v))
    ELSE Ok(responses)

----------------------------------------------------------------------------
(* The callers' inputs                                                     *)

Tokens == {None, << >>, <<"tok">>}
Sql(i) == <<"select ", ToString(i)>>
Sqls == {Sql(1)}
Contexts == {MYDB}
Formats == {<<"pandas">>, <<"json">>, <<"dict">>, <<"csv">>, <<"readable">>,
            <<"StringIO">>, <<"fits">>, <<"BytesIO">>}
AnyFormats == Formats \cup {<<"xml">>, None}
AsyncFormats == {None, <<"pandas">>, <<"xml">>}
JobIds == {7}
PollTimes == {3, 5, 8}
TableNames == {<<"t1">>, <<"t2">>}
CallerTaskNames == {<<"myTask">>}
DataFrames == {[index_name |-> None, serializable |-> TRUE],
               [index_name |-> <<"idx">>, serializable |-> TRUE],
               [index_name |-> None, serializable |-> FALSE]}

\* sql of executeQueryAsync: one query (a str) or a list of queries
SqlStrings == {[t |-> "str", v |-> q] : q \in Sqls}
SqlLists == {PyList([i \in 1..n |-> Sql(i)]) : n \in 0..MaxQueries}

\* the threads that call the module
Threads == {1, 2}

\* a thread that is in no call
IdleThread ==
    [pc |-> "idle", o |-> "none", taskName |-> None, posted |-> FALSE,
     sent |-> None, out |-> "none"]

----------------------------------------------------------------------------
(* Initial state: the module as imported, nobody logged in                 *)

Init ==
    /\ token = None
    /\ compute \in BOOLEAN
    /\ task_name = None
    /\ pc = "idle"
    /\ op = "none"
    /\ args = NoArgs
    /\ log = << >>
    /\ outcome = NoOutcome
    /\ remoteStatus = -1
    /\ jobDesc = Unbound
    /\ tasks = << >>
    /\ threads = [t \in Threads |-> IdleThread]

----------------------------------------------------------------------------
(* The environment                                                         *)

\* Authentication.login / logout between two calls
SetToken ==
    /\ pc = "idle"
    /\ \E t \in Tokens \ {token} : token' = t
    /\ UNCHANGED <<threads, compute, task_name, pc, op, args, log, outcome, remoteStatus,
                   jobDesc, tasks>>

\* the caller assigns CasJobs.task.name
SetTaskName ==
    /\ pc = "idle"
    /\ \E n \in CallerTaskNames \ {task_name} : task_name' = n
    /\ UNCHANGED <<threads, token, compute, pc, op, args, log, outcome, remoteStatus,
                   jobDesc, tasks>>

\* the service moves the job to another status; Canceled (3), Failed (4) and
\* Finished (5) are final
ServerStep ==
    /\ pc \in {"poll", "sleep"}
    /\ remoteStatus \in {0, 1, 2}
    /\ \E s \in Statuses \ {remoteStatus} : remoteStatus' = s
    /\ UNCHANGED <<threads, token, compute, task_name, pc, op, args, log, outcome,
                   jobDesc, tasks>>

----------------------------------------------------------------------------
(* The synchronous operations: each call is one step                       *)

Finish(name, a, r) ==
    /\ pc' = "idle"
    /\ op' = name
    /\ args' = a
    /\ log' = Window(r.log)
    /\ outcome' = r.out
    /\ task_name' = r.tn
    /\ jobDesc' = Unbound
    /\ tasks' = << >>
    /\ UNCHANGED <<threads, token, compute, remoteStatus>>

GetSchemaName ==
    /\ pc = "idle"
    /\ \E response \in PlainResponses({<<"{WebServicesId:", "4", "}">>}) :
           Finish("getSchemaName", NoArgs, getSchemaName(task_name, response))

GetTables ==
    /\ pc = "idle"
    /\ \E context \in Contexts, response \in PlainResponses({<<"[tables]">>}) :
           Finish("getTables", [context |-> context],
                  getTables(task_name, context, response))

ExecuteQuery ==
    /\ pc = "idle"
    /\ \E sql \in Sqls, context \in Contexts, format \in AnyFormats,
          response \in QueryResponses :
           Finish("executeQuery", [sql |-> sql, context |-> context, format |-> format],
                  executeQuery(task_name, sql, context, format, response))

SubmitJob ==
    /\ pc = "idle"
    /\ \E sql \in Sqls, context \in Contexts, response \in PlainResponses({<<"7">>}) :
           Finish("submitJob", [sql |-> sql, context |-> context],
                  submitJob(task_name, sql, context, response))

GetJobStatus ==
    /\ pc = "idle"
    /\ \E jobId \in JobIds, status \in Statuses :
         \E response \in JobResponses(status) :
           Finish("getJobStatus", [jobId |-> jobId],
                  getJobStatus(task_name, jobId, response))

CancelJob ==
    /\ pc = "idle"
    /\ \E jobId \in JobIds, response \in PlainResponses({<< >>}) :
           Finish("cancelJob", [jobId |-> jobId],
                  cancelJob(task_name, jobId, response))

UploadCSVDataToTable ==
    /\ pc = "idle"
    /\ \E csvData \in {<<"foo\n", "1\n">>}, tableName \in TableNames,
          context \in Contexts, response \in PlainResponses({<< >>}) :
           Finish("uploadCSVDataToTable",
                  [tableName |-> tableName, context |-> context],
                  uploadCSVDataToTable(task_name, csvData, tableName, context,
                                       response))

WriteFitsFileFromQuery ==
    /\ pc = "idle"
    /\ \E sql \in Sqls, context \in Contexts, response \in QueryResponses :
           Finish("writeFitsFileFromQuery", [sql |-> sql, context |-> context],
                  writeFitsFileFromQuery(task_name, <<"out.fits">>, sql, context,
                                         response))

GetPandasDataFrameFromQuery ==
    /\ pc = "idle"
    /\ \E sql \in Sqls, context \in Contexts, response \in QueryResponses :
           Finish("getPandasDataFrameFromQuery", [sql |-> sql, context |-> context],
                  getPandasDataFrameFromQuery(task_name, sql, context, response))

GetNumpyArrayFromQuery ==
    /\ pc = "idle"
    /\ \E sql \in Sqls, context \in Contexts, response \in QueryResponses :
           Finish("getNumpyArrayFromQuery", [sql |-> sql, context |-> context],
                  getNumpyArrayFromQuery(task_name, sql, context, response))

UploadPandasDataFrameToTable ==
    /\ pc = "idle"
    /\ \E dataFrame \in DataFrames, tableName \in TableNames, context \in Contexts,
          response \in PlainResponses({<< >>}) :
           Finish("uploadPandasDataFrameToTable",
                  [dataFrame |-> dataFrame, tableName |-> tableName,
                   context |-> context],
                  uploadPandasDataFrameToTable(task_name, dataFrame, tableName,
                                               context, response))

----------------------------------------------------------------------------
(* waitForJob                                                              *)

WaitForJob ==
    /\ pc = "idle"
    /\ \E jobId \in JobIds, pollTime \in PollTimes :
           args' = [jobId |-> jobId, pollTime |-> pollTime]
    /\ pc' = "poll"
    /\ op' = "waitForJob"
    /\ log' = << >>
    /\ outcome' = NoOutcome
    /\ jobDesc' = Unbound
    /\ tasks' = << >>
    /\ remoteStatus' \in Statuses
    /\ UNCHANGED <<threads, token, compute, task_name>>

\* one turn of the loop up to the test of jobStatus: the error of getJobStatus
\* leaves the call, a complete job ends the loop and returns jobDesc
WaitPoll ==
    /\ pc = "poll"
    /\ \E response \in JobResponses(remoteStatus) :
           LET r == getJobStatus(task_name, args.jobId, response)
               jobStatus == GetItemStr(r.out.v, "Status")
           IN  /\ log' = Window(log \o r.log)
               /\ IF ~r.out.ok
                  THEN /\ outcome' = r.out
                       /\ pc' = "idle"
                       /\ jobDesc' = jobDesc
                       /\ remoteStatus' = -1
                  ELSE /\ jobDesc' = r.out.v
                       /\ IF Complete(jobStatus)
                          THEN /\ outcome' = Ok(r.out.v)
                               /\ pc' = "idle"
                               /\ remoteStatus' = -1
                          ELSE /\ outcome' = outcome
                               /\ pc' = "sleep"
                               /\ remoteStatus' = remoteStatus
    /\ UNCHANGED <<threads, token, compute, task_name, op, args, tasks>>

WaitSleep ==
    /\ pc = "sleep"
    /\ log' = Window(Append(log, Sleep(SleepTime(args.pollTime))))
    /\ pc' = "poll"
    /\ UNCHANGED <<threads, token, compute, task_name, op, args, outcome, remoteStatus,
                   jobDesc, tasks>>

----------------------------------------------------------------------------
(* executeQueryAsync                                                       *)

AllDone(ts) == \A i \in 1..Len(ts) : ts[i].state = "done"
NumDone(ts) == Cardinality({i \in 1..Len(ts) : ts[i].state = "done"})

StartAsync(sql, context, format) ==
    LET datas == IF sql.t = "str" THEN <<sql.v>> ELSE sql.v
        tok == __token
        headers == IF tok.ok THEN __get_headers(tok.v, <<"json">>) ELSE tok
        url == CasJobsRESTUri \o <<"/contexts/">> \o context \o <<"/query">>
    IN  /\ args' = [sql |-> sql, context |-> context, format |-> format,
                    url |-> url,
                    headers |-> IF headers.ok THEN headers.v ELSE << >>,
                    task_name |-> __get_taskname(EXECUTEQUERY)]
        /\ IF ~headers.ok
           THEN outcome' = headers /\ pc' = "idle" /\ tasks' = << >>
           ELSE IF datas = << >>
           THEN /\ outcome' = Combine(gather(<< >>), format)
                /\ pc' = "idle"
                /\ tasks' = << >>
           ELSE /\ outcome' = NoOutcome
                /\ pc' = "gather"
                /\ tasks' = [i \in 1..Len(datas) |->
                                [state |-> "created", data |-> datas[i],
                                 response |-> Response(0, << >>),
                                 output |-> Unbound, at |-> 0]]

ExecuteQueryAsync ==
    /\ pc = "idle"
    /\ \E context \in Contexts, format \in AsyncFormats :
           \/ \E sql \in SqlStrings : StartAsync(sql, context, format)
           \/ \E sql \in SqlLists : StartAsync(sql, context, format)
    /\ op' = "executeQueryAsync"
    /\ log' = << >>
    /\ jobDesc' = Unbound
    /\ UNCHANGED <<threads, token, compute, task_name, remoteStatus>>

\* task i issues its POST
AsyncPost(i) ==
    /\ pc = "gather"
    /\ tasks[i].state = "created"
    /\ tasks' = [tasks EXCEPT ![i].state = "sent"]
    /\ log' = Window(Append(log, Request("POST", args.url, args.headers,
                                         __format_data(tasks[i].data, args.task_name))))
    /\ UNCHANGED <<threads, token, compute, task_name, pc, op, args, outcome, remoteStatus,
                   jobDesc>>

\* task i gets its response; an exception leaves gather and the call at once,
\* the last result ends gather and the call
AsyncResponse(i) ==
    /\ pc = "gather"
    /\ tasks[i].state = "sent"
    /\ \E response \in QueryResponses :
           LET output == __make_post_request(response)
               ts == [tasks EXCEPT ![i] = [state |-> "done", data |-> @.data,
                                           response |-> response,
                                           output |-> output.v,
                                           at |-> NumDone(tasks) + 1]]
           IN  /\ log' = Window(Append(log, Reply(response)))
               /\ IF ~output.ok
                  THEN /\ tasks' = [tasks EXCEPT ![i].state = "failed",
                                                 ![i].response = response]
                       /\ outcome' = output
                       /\ pc' = "idle"
                  ELSE /\ tasks' = ts
                       /\ IF AllDone(ts)
                          THEN outcome' = Combine(gather(ts), args.format) /\ pc' = "idle"
                          ELSE outcome' = outcome /\ pc' = pc
    /\ UNCHANGED <<threads, token, compute, task_name, op, args, remoteStatus, jobDesc>>

----------------------------------------------------------------------------

Next ==
    \/ SetToken
    \/ SetTaskName
    \/ ServerStep
    \/ GetSchemaName
    \/ GetTables
    \/ ExecuteQuery
    \/ ExecuteQueryAsync
    \/ SubmitJob
    \/ GetJobStatus
    \/ CancelJob
    \/ WaitForJob
    \/ WaitPoll
    \/ WaitSleep
    \/ WriteFitsFileFromQuery
    \/ GetPandasDataFrameFromQuery
    \/ GetNumpyArrayFromQuery
    \/ UploadPandasDataFrameToTable
    \/ UploadCSVDataToTable
    \/ \E i \in 1..Len(tasks) : AsyncPost(i)
    \/ \E i \in 1..Len(tasks) : AsyncResponse(i)

Spec == Init /\ [][Next]_vars

\* waitForJob alone, with a running call that keeps running
NextWait ==
    \/ SetToken
    \/ ServerStep
    \/ WaitForJob
    \/ WaitPoll
    \/ WaitSleep

SpecWait == Init /\ [][NextWait]_vars /\ WF_vars(WaitPoll) /\ WF_vars(WaitSleep)

----------------------------------------------------------------------------
(* Calls from several threads: the operations that use task.name, followed *)
(* statement by statement, task.name being an attribute of the module's    *)
(* one Task object                                                         *)

Wrappers ==
    {"writeFitsFileFromQuery", "getPandasDataFrameFromQuery",
     "getNumpyArrayFromQuery", "uploadPandasDataFrameToTable"}

\* the operation that issues the request of operation o
Inner(o) ==
    IF o \in {"uploadCSVDataToTable", "uploadPandasDataFrameToTable"}
    THEN "uploadCSVDataToTable" ELSE "executeQuery"

\* the format operation o gives executeQuery (its default for a direct call)
FormatOf(o) ==
    IF o = "writeFitsFileFromQuery" THEN <<"fits">>
    ELSE IF o = "executeQuery" THEN <<"pandas">>
    ELSE <<"readable">>

Step(t, rec) ==
    /\ threads' = [threads EXCEPT ![t] = rec]
    /\ UNCHANGED <<token, compute, pc, op, args, outcome, remoteStatus, jobDesc,
                   tasks>>

\* thread t calls one of the operations
ThreadCall(t) ==
    /\ pc = "idle"
    /\ threads[t].pc = "idle"
    /\ \E o \in Wrappers \cup {"executeQuery", "uploadCSVDataToTable"} :
           Step(t, [IdleThread EXCEPT !.o = o,
                                      !.pc = IF o \in Wrappers THEN "set" ELSE "test"])
    /\ UNCHANGED <<task_name, log>>

\* the wrapper's task.name = __get_taskname(...)
ThreadSetName(t) ==
    /\ threads[t].pc = "set"
    /\ task_name' = __get_taskname(<<threads[t].o>>)
    /\ Step(t, [threads[t] EXCEPT !.pc =
                    IF threads[t].o = "getNumpyArrayFromQuery" THEN "set2"
                    ELSE IF threads[t].o = "uploadPandasDataFrameToTable"
                    THEN "serialize" ELSE "test"])
    /\ UNCHANGED log

\* getNumpyArrayFromQuery has called getPandasDataFrameFromQuery, which
\* assigns task.name in its turn
ThreadSetName2(t) ==
    /\ threads[t].pc = "set2"
    /\ task_name' = __get_taskname(GETPANDASDATAFRAMEFROMQUERY)
    /\ Step(t, [threads[t] EXCEPT !.pc = "test"])
    /\ UNCHANGED log

\* uploadPandasDataFrameToTable serializes its table; a failure ends the call
ThreadSerialize(t) ==
    /\ threads[t].pc = "serialize"
    /\ \E dataFrame \in DataFrames :
           IF to_csv(dataFrame).ok
           THEN Step(t, [threads[t] EXCEPT !.pc = "test"])
           ELSE Step(t, [threads[t] EXCEPT !.pc = "done", !.out = "raised"])
    /\ UNCHANGED <<task_name, log>>

\* if task.name is not None:
ThreadTest(t) ==
    /\ threads[t].pc = "test"
    /\ Step(t, [threads[t] EXCEPT !.pc = IF task_name # None THEN "read" ELSE "default"])
    /\ UNCHANGED <<task_name, log>>

\* taskName = task.name
ThreadRead(t) ==
    /\ threads[t].pc = "read"
    /\ Step(t, [threads[t] EXCEPT !.pc = "reset", !.taskName = task_name])
    /\ UNCHANGED <<task_name, log>>

\* task.name = None
ThreadReset(t) ==
    /\ threads[t].pc = "reset"
    /\ task_name' = None
    /\ Step(t, [threads[t] EXCEPT !.pc = "send"])
    /\ UNCHANGED log

\* else: taskName = __get_taskname(TASKNAMES....)
ThreadDefault(t) ==
    /\ threads[t].pc = "default"
    /\ Step(t, [threads[t] EXCEPT !.pc = "send",
                                  !.taskName = __get_taskname(<<Inner(threads[t].o)>>)])
    /\ UNCHANGED <<task_name, log>>

\* the request with taskName, the check of the response and the return; the
\* thread's record keeps the TaskName its request carried
ThreadSend(t) ==
    LET th == threads[t]
        upload == Inner(th.o) = "uploadCSVDataToTable"
    IN  /\ th.pc = "send"
        /\ \E response \in QueryResponses :
               LET valid == __validate_response_status(response, EXECUTE_QUERY_ERROR)
                   parsed == IF upload THEN Ok(True)
                             ELSE __parse_post(response, FormatOf(th.o))
               IN  IF ~__token.ok
                   THEN Step(t, [th EXCEPT !.pc = "done", !.out = "raised"])
                   ELSE Step(t, [th EXCEPT !.pc = "done", !.posted = TRUE,
                                           !.sent = th.taskName,
                                           !.out = IF valid.ok /\ parsed.ok
                                                   THEN "returned" ELSE "raised"])
        /\ UNCHANGED <<task_name, log>>

\* the call is over: the thread is back in its caller
ThreadReturn(t) ==
    /\ threads[t].pc = "done"
    /\ Step(t, IdleThread)
    /\ UNCHANGED <<task_name, log>>

NextThreads ==
    \/ \E t \in Threads : ThreadCall(t)
    \/ \E t \in Threads : ThreadSetName(t)
    \/ \E t \in Threads : ThreadSetName2(t)
    \/ \E t \in Threads : ThreadSerialize(t)
    \/ \E t \in Threads : ThreadTest(t)
    \/ \E t \in Threads : ThreadRead(t)
    \/ \E t \in Threads : ThreadReset(t)
    \/ \E t \in Threads : ThreadDefault(t)
    \/ \E t \in Threads : ThreadSend(t)
    \/ \E t \in Threads : ThreadReturn(t)

\* the threads start after Authentication.login
InitThreads ==
    /\ token = <<"tok">>
    /\ compute \in BOOLEAN
    /\ task_name = None
    /\ pc = "idle"
    /\ op = "none"
    /\ args = NoArgs
    /\ log = << >>
    /\ outcome = NoOutcome
    /\ remoteStatus = -1
    /\ jobDesc = Unbound
    /\ tasks = << >>
    /\ threads = [t \in Threads |-> IdleThread]

SpecThreads == InitThreads /\ [][NextThreads]_vars

----------------------------------------------------------------------------
(* Properties                                                              *)

TerminalStatuses == {3, 4, 5}
EmptyTokens == {None, << >>}

IsRequest(e) == e.type = "request"
IsResponse(e) == e.type = "response"
IsSleep(e) == e.type = "sleep"
Requests(events) == {i \in DOMAIN events : IsRequest(events[i])}
Responses(events) == {i \in DOMAIN events : IsResponse(events[i])}
Sleeps(events) == {i \in DOMAIN events : IsSleep(events[i])}

Returned == pc = "idle" /\ outcome.ok
Raised == pc = "idle" /\ ~outcome.ok /\ outcome.etype # ""
InWait == pc \in {"poll", "sleep"}

\* the status a 200 response of getJobStatus reports
StatusIn(e) == orjson_loads(e.content).v.Status

\* C1: waitForJob returns only after a poll whose status is 3, 4 or 5: the
\* record it returns is the one of the last poll, that poll is the last event
\* of the call (no poll and no sleep follows it), every earlier poll of the
\* call reported 0, 1 or 2, and so does every poll while the loop still runs.
C1_ReturnsAtFirstTerminalPoll ==
    op = "waitForJob" =>
        /\ InWait =>
               \A i \in Responses(log) :
                   log[i].status_code = 200 /\ StatusIn(log[i]) \in {0, 1, 2}
        /\ Returned =>
               /\ log # << >>
               /\ IsResponse(log[Len(log)])
               /\ log[Len(log)].status_code = 200
               /\ StatusIn(log[Len(log)]) \in TerminalStatuses
               /\ outcome.v = orjson_loads(log[Len(log)].content)
               /\ outcome.v.v.Status \in TerminalStatuses
               /\ \A i \in Responses(log) :
                      i < Len(log) =>
                          log[i].status_code = 200 /\ StatusIn(log[i]) \in {0, 1, 2}

\* a waitForJob that returned after polling a running job and sleeping
C1_Witness ==
    /\ op = "waitForJob"
    /\ Returned
    /\ Len(log) = MaxLog
    /\ Sleeps(log) # {}
    /\ \E i \in Responses(log) : i < Len(log) /\ StatusIn(log[i]) = 2

\* C8: in waitForJob every sleep lasts max(pollTime, 5) seconds, so at least
\* 5, and between two consecutive polls of a call there is exactly one sleep
\* (and no sleep comes without a poll before the next sleep).
C8_SleepIsClampedPollTime ==
    op = "waitForJob" =>
        /\ \A i \in Sleeps(log) :
               /\ log[i].secs = (IF args.pollTime > 5 THEN args.pollTime ELSE 5)
               /\ log[i].secs >= 5
        /\ \A i, j \in Requests(log) :
               (i < j /\ \A k \in Requests(log) : ~(i < k /\ k < j)) =>
                   Cardinality({k \in Sleeps(log) : i < k /\ k < j}) = 1
        /\ \A i, j \in Sleeps(log) :
               i < j => \E k \in Requests(log) : i < k /\ k < j

\* a call with pollTime below 5 that slept between two polls
C8_Witness ==
    /\ op = "waitForJob"
    /\ args.pollTime < 5
    /\ \E i, j \in Requests(log) : \E k \in Sleeps(log) : i < k /\ k < j

\* C2: a response whose status code is not 200 makes the operation that got
\* it raise at once, and the message of the error holds the status code and
\* the body of that response.
C2_Non200Raises ==
    \A i \in Responses(log) :
        log[i].status_code # 200 =>
            /\ Raised
            /\ outcome.etype = "ValueError"
            /\ Contains(outcome.msg, <<ToString(log[i].status_code)>>)
            /\ Contains(outcome.msg, log[i].content)

\* an upload that got 201 Created and raised
C2_Witness ==
    /\ op = "uploadPandasDataFrameToTable"
    /\ Raised
    /\ \E i \in Responses(log) : log[i].status_code = 201

\* a step that ends a call of a public operation
CallEnds == pc' = "idle" /\ ~SetToken /\ ~SetTaskName

LoginError(out) == ~out.ok /\ out.etype = "ValueError" /\ out.msg = LOGIN_ERROR

C4_Original ==
    [][(/\ token \notin EmptyTokens
        /\ CallEnds
        /\ op' = "executeQuery"
        /\ args'.format \notin Formats) =>
           /\ ~outcome'.ok
           /\ outcome'.etype = "ValueError"
           /\ outcome'.msg = ILLEGAL_FORMAT_ERROR \o Str(args'.format)
           /\ log' = << >>]_vars

\* the queries of the running executeQueryAsync, in the order submitted
Batch == IF args.sql.t = "str" THEN <<args.sql.v>> ELSE args.sql.v

\* the result sets of a 200 response, each reduced to its columns and rows
ResultOf(response) ==
    LET sets == orjson_loads(response.content).v.Result.v
    IN  PyList([k \in 1..Len(sets) |->
                   PyDict([Columns |-> sets[k].v.Columns, Data |-> sets[k].v.Data])])

\* C5: executeQueryAsync without a format, every response being 200, returns
\* as many entries as queries were given (one for a single string), and entry
\* i is the result of the response to the POST of query i, whatever the order
\* in which the responses came.
C5_ResultsInSubmissionOrder ==
    (op = "executeQueryAsync" /\ Returned /\ args.format = None) =>
        /\ outcome.v.t = "list"
        /\ Len(outcome.v.v) = Len(Batch)
        /\ Len(tasks) = Len(Batch)
        /\ \A i \in 1..Len(Batch) :
               /\ tasks[i].data = Batch[i]
               /\ tasks[i].response.status_code = 200
               /\ outcome.v.v[i] = ResultOf(tasks[i].response)

\* two queries with different results, the second answered first
C5_Witness ==
    /\ op = "executeQueryAsync"
    /\ Returned
    /\ args.format = None
    /\ Len(tasks) = 2
    /\ tasks[1].at = 2
    /\ tasks[2].at = 1
    /\ tasks[1].response # tasks[2].response

\* C6: once a query of the batch of executeQueryAsync got a response that is
\* not 200, the call has raised the error of that query (its status code and
\* body) and returned no result, whatever the other queries got and in
\* whatever order.
C6_OneFailureAbortsBatch ==
    op = "executeQueryAsync" =>
        \A i \in 1..Len(tasks) :
            (tasks[i].state \in {"done", "failed"} /\ tasks[i].response.status_code # 200) =>
                /\ Raised
                /\ outcome.etype = "ValueError"
                /\ Contains(outcome.msg, EXECUTE_QUERY_ERROR)
                /\ Contains(outcome.msg, <<ToString(tasks[i].response.status_code)>>)
                /\ Contains(outcome.msg, tasks[i].response.content)
                /\ \A j \in 1..Len(tasks) :
                       j # i => tasks[j].response.status_code \in {0, 200}

\* the second query failed after the first had got its 200
C6_Witness ==
    /\ op = "executeQueryAsync"
    /\ Raised
    /\ Len(tasks) = 2
    /\ tasks[1].state = "done"
    /\ tasks[1].response.status_code = 200
    /\ tasks[2].state = "failed"

\* the rows of the first result set of each response, in the order of the tasks
RECURSIVE FirstRows(_)
FirstRows(ts) ==
    IF ts = << >> THEN << >>
    ELSE orjson_loads(Head(ts).response.content).v.Result.v[1].v.Data.v
         \o FirstRows(Tail(ts))

\* C10 as stated: executeQueryAsync with a format, every query having got its
\* 200, returns one table: the rows of the first result set of every query in
\* submission order, under the columns of the first query's first result set.
C10_Original ==
    (/\ op = "executeQueryAsync"
     /\ pc = "idle"
     /\ args.format # None
     /\ Len(tasks) >= 1
     /\ AllDone(tasks)) =>
        /\ outcome.ok
        /\ outcome.v.t = "DataFrame"
        /\ outcome.v.v.Data = FirstRows(tasks)
        /\ outcome.v.v.Columns =
               orjson_loads(tasks[1].response.content).v.Result.v[1].v.Columns.v

\* the operations that end in executeQuery or uploadCSVDataToTable
TaskNameOps ==
    {"executeQuery", "uploadCSVDataToTable", "writeFitsFileFromQuery",
     "getPandasDataFrameFromQuery", "getNumpyArrayFromQuery",
     "uploadPandasDataFrameToTable"}

Prefix ==
    IF compute THEN <<"Compute.", "SciScript-Python.CasJobs.">>
    ELSE <<"SciScript-Python.CasJobs.">>

\* the value of task.name when the executeQuery or uploadCSVDataToTable of
\* operation o reads it, tn being its value when o is called: what the last
\* wrapper on the way has put there, else what the caller has
OverrideAtUse(o, tn) ==
    IF o = "writeFitsFileFromQuery" THEN Prefix \o <<o>>
    ELSE IF o \in {"getPandasDataFrameFromQuery", "getNumpyArrayFromQuery"}
    THEN Prefix \o <<"getPandasDataFrameFromQuery">>
    ELSE IF o = "uploadPandasDataFrameToTable" THEN Prefix \o <<o>>
    ELSE tn

\* the task name the call must send: the override, or without one the default
\* of the operation that sends the request
NameToSend(o, tn) ==
    IF OverrideAtUse(o, tn) # None THEN OverrideAtUse(o, tn) ELSE Prefix \o <<o>>

\* the task name request e of operation o carries: the one its URL ends with
\* and, the body being a query and not a table, the one of its body
CarriesName(o, e, name) ==
    /\ \E k \in 1..Len(e.url) :
           /\ SubSeq(e.url, k, Len(e.url)) = <<"?", "TaskName", "=">> \o Prefix \o name
    /\ e.method = "POST"
    /\ o \notin {"uploadCSVDataToTable", "uploadPandasDataFrameToTable"} =>
           e.data.v.TaskName = name

\* the call has got as far as its executeQuery or uploadCSVDataToTable
ReachedUse(o, a) ==
    o = "uploadPandasDataFrameToTable" => a.dataFrame.serializable

\* C7: a call that gets to executeQuery or uploadCSVDataToTable sends the
\* value task.name has at that point (set by the caller or by the wrapper on
\* the way) and leaves task.name None; with task.name None it sends the
\* default of the operation, so an override serves one call only.
C7_OverrideIsOneShot ==
    [][(pc = "idle" /\ CallEnds /\ op' \in TaskNameOps /\ ReachedUse(op', args')) =>
           /\ task_name' = None
           /\ \A i \in Requests(log') :
                  CarriesName(op', log'[i], NameToSend(op', task_name))]_vars

\* a direct executeQuery has sent the name the caller had put in task.name,
\* and task.name is None after it
C7_Witness ==
    /\ op = "executeQuery"
    /\ pc = "idle"
    /\ task_name = None
    /\ \E i \in Requests(log) : log[i].data.v.TaskName \in CallerTaskNames

\* the last response of the call
LastResponse(events) == events[Len(events)]

\* C9: a waitForJob that runs while the job is in status 3, 4 or 5 ends (it
\* returns, every poll getting its 200); the loop is left only by returning
\* the record of a poll that reported 3, 4 or 5 or by the error of a poll; and
\* a waitForJob that never ends polls and sleeps again and again.
C9_EndsOnlyOnTerminalStatus ==
    /\ (InWait /\ remoteStatus \in TerminalStatuses) ~> (pc = "idle")
    /\ [](op = "waitForJob" =>
            /\ Returned =>
                   /\ LastResponse(log).status_code = 200
                   /\ StatusIn(LastResponse(log)) \in TerminalStatuses
            /\ pc = "idle" =>
                   \/ Returned
                   \/ Raised /\ LoginError(outcome) /\ log = << >>
                   \/ Raised /\ LastResponse(log).status_code # 200)
    /\ <>[]InWait => ([]<>(pc = "poll") /\ []<>(pc = "sleep"))

\* the job has reached a final status while waitForJob sleeps
C9_Witness ==
    /\ op = "waitForJob"
    /\ pc = "sleep"
    /\ remoteStatus \in TerminalStatuses
    /\ Sleeps(log) = {}

\* C11 as stated: executeQueryAsync with a format outside the recognized set
\* (and not None, the default), every query having got its 200, has raised the
\* illegal-format error naming that format.
C11_Original ==
    (/\ op = "executeQueryAsync"
     /\ pc = "idle"
     /\ args.format \notin Formats \cup {None}
     /\ Len(tasks) >= 1
     /\ AllDone(tasks)) =>
        /\ ~outcome.ok
        /\ outcome.etype = "ValueError"
        /\ outcome.msg = ILLEGAL_FORMAT_ERROR \o Str(args.format)

\* C12 as stated: the request of uploadCSVDataToTable goes to a URL that holds
\* the caller's context and table name, and the call returns True exactly
\* when the response is 200.
C12_Original ==
    (op \in {"uploadCSVDataToTable", "uploadPandasDataFrameToTable"} /\ pc = "idle") =>
        /\ \A i \in Requests(log) :
               /\ log[i].method = "POST"
               /\ Contains(log[i].url, args.context)
               /\ Contains(log[i].url, args.tableName)
        /\ \A i \in Responses(log) :
               (outcome.ok /\ outcome.v = True) <=> log[i].status_code = 200

\* C13 as stated: every request carries the auth-token header; every request
\* but a GET carries the content-type header and a GET does not; every POST
\* carries an accept header.
C13_Original ==
    \A i \in Requests(log) :
        /\ X_AUTH_TOKEN \in DOMAIN log[i].headers
        /\ log[i].method # "GET" <=> CONTENT_TYPE \in DOMAIN log[i].headers
        /\ log[i].method = "POST" => ACCEPT \in DOMAIN log[i].headers

\* the accept header of a format
AcceptOf(format) ==
    IF format \in {<<"pandas">>, <<"json">>, <<"dict">>} THEN <<"application/json+array">>
    ELSE IF format \in {<<"csv">>, <<"readable">>, <<"StringIO">>} THEN <<"text/plain">>
    ELSE <<"application/fits">>

\* the format the request of operation o asks its answer in, None when it
\* asks for none
RequestedFormat(o, a) ==
    IF o = "executeQuery" THEN a.format
    ELSE IF o = "executeQueryAsync" THEN <<"json">>
    ELSE IF o = "writeFitsFileFromQuery" THEN <<"fits">>
    ELSE IF o \in {"getPandasDataFrameFromQuery", "getNumpyArrayFromQuery", "submitJob"}
    THEN <<"readable">>
    ELSE None

UploadOps == {"uploadCSVDataToTable", "uploadPandasDataFrameToTable"}

\* C13, amended: every request carries the auth-token header with the
\* caller's token; the POST of an upload carries nothing else; every other
\* request, a GET included, carries the content type application/json; the
\* POST of executeQuery and of its wrappers and the PUT of submitJob carry the
\* accept header of their format (none when executeQuery is given format
\* None), the POST of executeQueryAsync always the one of json, and a GET or a
\* DELETE carries no accept header.
C13_HeadersPerRequest ==
    \A i \in Requests(log) :
        LET h == log[i].headers
            f == RequestedFormat(op, args)
        IN  /\ X_AUTH_TOKEN \in DOMAIN h
            /\ h[X_AUTH_TOKEN] \in Tokens \ EmptyTokens
            /\ IF op \in UploadOps
               THEN DOMAIN h = {X_AUTH_TOKEN} /\ log[i].method = "POST"
               ELSE /\ CONTENT_TYPE \in DOMAIN h
                    /\ h[CONTENT_TYPE] = <<"application/json">>
                    /\ IF f = None
                       THEN ACCEPT \notin DOMAIN h
                       ELSE ACCEPT \in DOMAIN h /\ h[ACCEPT] = AcceptOf(f)
                    /\ log[i].method \in {"GET", "DELETE"} => f = None
                    /\ log[i].method = "PUT" => h[ACCEPT] = <<"text/plain">>

\* an executeQuery asking for fits has sent its POST
C13_Witness ==
    /\ op = "executeQuery"
    /\ args.format = <<"fits">>
    /\ \E i \in Requests(log) :
           /\ log[i].method = "POST"
           /\ log[i].headers[ACCEPT] = <<"application/fits">>
           /\ CONTENT_TYPE \in DOMAIN log[i].headers

\* the task name of operation o
OwnName(o) == Prefix \o <<o>>

\* thread u is in a wrapper that has assigned task.name and not sent yet
HoldsOverride(u) ==
    /\ threads[u].o \in Wrappers
    /\ threads[u].pc \in {"set2", "serialize", "test", "read", "reset", "default", "send"}

\* C14 as stated: with two threads calling, under every interleaving the
\* request of a call carries the task name of the operation its caller
\* invoked (for getNumpyArrayFromQuery that of the getPandasDataFrameFromQuery
\* it goes through will do), and a direct call of executeQuery or
\* uploadCSVDataToTable never takes the override while the wrapper of another
\* thread is between setting it and sending.
C14_Original ==
    \A t \in Threads :
        /\ threads[t].posted =>
               \/ threads[t].sent = OwnName(threads[t].o)
               \/ /\ threads[t].o = "getNumpyArrayFromQuery"
                  /\ threads[t].sent = OwnName("getPandasDataFrameFromQuery")
        /\ (threads[t].o \notin Wrappers /\ threads[t].pc \in {"read", "reset"}) =>
               \A u \in Threads \ {t} : ~HoldsOverride(u)


\* C15 as stated: a call of a public operation that starts with task.name
\* None ends, returning or raising, with task.name None, so that from
\* task.name = None it is None whenever no operation is in progress.
C15_Original ==
    [][(CallEnds /\ task_name = None) => task_name' = None]_vars


\* the value of the TaskName parameter in the query string of url
RECURSIVE UrlTaskName(_)
UrlTaskName(url) ==
    IF url = << >> THEN << >>
    ELSE IF Head(url) = "=" THEN Tail(url)
    ELSE UrlTaskName(Tail(url))

QueryOps ==
    {"executeQuery", "writeFitsFileFromQuery", "getPandasDataFrameFromQuery",
     "getNumpyArrayFromQuery"}

\* C16 as stated: the request of every executeQuery call, with or without
\* an override, has in its URL the TaskName that its body has in the field
\* TaskName, and that name is the environment prefix, once, followed by one
\* operation name.
C16_Original ==
    (op \in QueryOps /\ pc = "idle") =>
        \A i \in Requests(log) :
            /\ UrlTaskName(log[i].url) = log[i].data.v.TaskName
            /\ \E o \in QueryOps : UrlTaskName(log[i].url) = Prefix \o <<o>>

====
